---- MODULE Spec2Model ----
(***************************************************************************)
(* Model of src/app.py: the GLD grid bot.  One Flask process serves /run;  *)
(* every /run invocation executes run_cycle(): market clock, price,        *)
(* sync_orders() (reconciliation), the sell pass and the buy pass, against *)
(* one SQLite table `lots` and the Alpaca brokerage.                       *)
(*                                                                         *)
(* Prices are kept in cents (400.00 -> 40000).  SQL NULL is "NULL" for the *)
(* text columns and 0 for the numeric ones.  A lot's id is its index in    *)
(* the sequence `lots` (AUTOINCREMENT primary key, rows are never deleted).*)
(***************************************************************************)
EXTENDS Integers, Sequences, FiniteSets, TLC

(* ---- program constants (src/app.py, CONFIG block) ---- *)
LOWER_BAND == 380
UPPER_BAND == 430
GRID_PERMILLE == 6
ORDER_USD == 500
MAX_CAPITAL == 10000

(* ---- bounds of the model ---- *)
MaxCycles == 2
MaxInitLots == 2

Procs == {1, 2}
\* latest-trade prices the data client may return (cents)
Prices == {39700, 44000}
\* average fill prices the brokerage may report (cents)
FillPrices == {39400, 51000}
\* quantities found in a pre-existing lot store
InitQtys == {1, 25}

VARIABLES
    lots,            \* the committed content of table lots
    txn,             \* txn[p]: uncommitted sell UPDATEs of p's connection `conn`
    orders,          \* the brokerage's orders; an order's id is its index
    pc,              \* where each /run invocation stands
    price,           \* price[p]: the local `price` of run_cycle
    outcome,         \* how the last finished invocation ended (its last log line)
    failed,          \* the brokerage calls that raised in the step just run: order ids
                     \* in sync_orders(), row ids in the sell loop
    cycles,          \* number of /run invocations so far; also the clock now()
    tradingEnabled   \* TRADING_ENABLED, read once from the environment

vars == <<lots, txn, orders, pc, price, outcome, failed, cycles, tradingEnabled>>

(* ------------------------------------------------------------------ *)
(* helpers                                                            *)
(* ------------------------------------------------------------------ *)
Min(S) == CHOOSE x \in S : \A y \in S : x <= y

\* the members of a finite set of numbers below x
Rank(S, x) == Cardinality({y \in S : y < x})

RECURSIVE SumOver(_, _)
SumOver(f, S) ==
    IF S = {} THEN 0
    ELSE LET x == Min(S) IN f[x] + SumOver(f, S \ {x})

\* round(p, 2) of a price given in 1/1000 cent.  Agrees with Python's
\* round() on floats for every cent price c with c % 500 # 250 (the exact
\* ties of c*1.006 and c*0.994, where the float result goes either way).
round_price(milli) == (milli + 500) \div 1000

\* round_price(buy_filled_price * (1 + grid)), the grid step given in 1/1000
SellTargetAt(filled, permille) == round_price(filled * (1000 + permille))

SellTarget(filled) == SellTargetAt(filled, GRID_PERMILLE)

\* the buy level computed with the sign of the sell target
BuyLevelPlus(anchor) == round_price(anchor * (1000 + GRID_PERMILLE))

BuyLevel(anchor) == round_price(anchor * (1000 - GRID_PERMILLE))

(* ------------------------------------------------------------------ *)
(* rows                                                               *)
(* ------------------------------------------------------------------ *)
\* the INSERT writing the row as already filled at its limit
NewLotAsFilled(oid, limit, q, t) ==
    [buy_order_id |-> oid, buy_status |-> "BOUGHT",
     buy_limit_price |-> limit, buy_filled_price |-> limit, qty |-> q,
     buy_created_at |-> t,
     sell_order_id |-> 0, sell_status |-> "NULL", sell_limit_price |-> 0,
     sell_filled_price |-> 0, sell_created_at |-> 0]

NewLot(oid, limit, q, t) ==
    [buy_order_id |-> oid, buy_status |-> "BUY_SUBMITTED",
     buy_limit_price |-> limit, buy_filled_price |-> 0, qty |-> q,
     buy_created_at |-> t,
     sell_order_id |-> 0, sell_status |-> "NULL", sell_limit_price |-> 0,
     sell_filled_price |-> 0, sell_created_at |-> 0]

NewOrder(sd, limit, q) ==
    [side |-> sd, limit_price |-> limit, qty |-> q,
     status |-> "new", filled_avg_price |-> 0]

LotIds == DOMAIN lots

(* ------------------------------------------------------------------ *)
(* queries                                                            *)
(* ------------------------------------------------------------------ *)
\* SELECT COALESCE(SUM(buy_filled_price*qty),0) ... WHERE buy_status='BOUGHT'
\*   AND sell_status IS NULL, plus the BUY_SUBMITTED reservation.
\* Called on a connection of its own: it reads the committed table.
deployed_capital(ls) ==
    LET used == SumOver([i \in DOMAIN ls |-> ls[i].buy_filled_price * ls[i].qty],
                        {i \in DOMAIN ls : ls[i].buy_status = "BOUGHT"
                                           /\ ls[i].sell_status = "NULL"})
        reserved == SumOver([i \in DOMAIN ls |-> ls[i].buy_limit_price * ls[i].qty],
                        {i \in DOMAIN ls : ls[i].buy_status = "BUY_SUBMITTED"})
    IN used + reserved

\* open_buy_exists with COUNT(*) > 1 in place of COUNT(*) > 0
open_buy_exists_off_by_one(ls, p) ==
    Cardinality({i \in DOMAIN ls : ls[i].buy_status = "BUY_SUBMITTED"
                                    /\ ls[i].buy_limit_price = p}) > 1

\* ABS(buy_limit_price - ?) < 0.0001 on prices of whole cents is equality
open_buy_exists(ls, p) ==
    \E i \in DOMAIN ls : ls[i].buy_status = "BUY_SUBMITTED" /\ ls[i].buy_limit_price = p

\* the sell SELECT without its sell_status condition
SellCandidatesAll(ls) == {i \in DOMAIN ls : ls[i].buy_status = "BOUGHT"}

\* SELECT * FROM lots WHERE buy_status='BOUGHT'
\*   AND (sell_status IS NULL OR sell_status!='SOLD')
SellCandidates(ls) ==
    {i \in DOMAIN ls : ls[i].buy_status = "BOUGHT"
                       /\ (ls[i].sell_status = "NULL" \/ ls[i].sell_status # "SOLD")}

\* SELECT buy_filled_price FROM lots WHERE buy_status='BOUGHT' ORDER BY id DESC LIMIT 1
Anchor(ls, pr) ==
    LET b == {i \in DOMAIN ls : ls[i].buy_status = "BOUGHT"}
    IN IF b = {} THEN pr
       ELSE ls[CHOOSE i \in b : \A j \in b : j <= i].buy_filled_price

\* SQLite lets one connection write at a time: a connection with pending
\* UPDATEs holds the write lock until it commits or is closed.
LockedByOther(p) == \E q \in Procs \ {p} : txn[q] # {}

(* ------------------------------------------------------------------ *)
(* initial lot stores                                                  *)
(* ------------------------------------------------------------------ *)
\* A pre-existing row of each stage of the lot life cycle, with the orders
\* the brokerage holds for it.  Every row was bought at the 397.60 level.
Kinds == {"BUY_SUBMITTED", "BOUGHT", "SELL_SUBMITTED", "SOLD"}

InitRow(kind, q, n) ==
    LET base == NewLot(n + 1, 39760, q, 0) IN
    IF kind = "BUY_SUBMITTED" THEN base
    ELSE LET b == [base EXCEPT !.buy_status = "BOUGHT", !.buy_filled_price = 40000] IN
         IF kind = "BOUGHT" THEN b
         ELSE LET s == [b EXCEPT !.sell_order_id = n + 2, !.sell_status = "SELL_SUBMITTED",
                                 !.sell_limit_price = SellTarget(40000)] IN
              IF kind = "SELL_SUBMITTED" THEN s
              ELSE [s EXCEPT !.sell_status = "SOLD", !.sell_filled_price = SellTarget(40000)]

InitOrders(kind, q) ==
    LET bo == NewOrder("buy", 39760, q)
        bf == [bo EXCEPT !.status = "filled", !.filled_avg_price = 40000]
        so == NewOrder("sell", SellTarget(40000), q)
        sf == [so EXCEPT !.status = "filled", !.filled_avg_price = SellTarget(40000)]
    IN CASE kind = "BUY_SUBMITTED" -> <<bo>>
         [] kind = "BOUGHT" -> <<bf>>
         [] kind = "SELL_SUBMITTED" -> <<bf, so>>
         [] kind = "SOLD" -> <<bf, sf>>

RECURSIVE BuildStore(_)
\* ks: a sequence of <<kind, qty>>; the result holds the rows and the orders
BuildStore(ks) ==
    IF ks = << >> THEN [rows |-> << >>, ords |-> << >>]
    ELSE LET n == Len(ks)
             front == BuildStore(SubSeq(ks, 1, n - 1))
         IN [rows |-> Append(front.rows, InitRow(ks[n][1], ks[n][2], Len(front.ords))),
             ords |-> front.ords \o InitOrders(ks[n][1], ks[n][2])]

\* an open buy at 397.60 exists at most once (duplicate-grid-level guard);
\* the rows of one store were all sized with the same order size
InitShapes ==
    {ks \in UNION {[1..n -> Kinds \X InitQtys] : n \in 0..MaxInitLots} :
        /\ Cardinality({i \in DOMAIN ks : ks[i][1] = "BUY_SUBMITTED"}) <= 1
        /\ \A i, j \in DOMAIN ks : ks[i][2] = ks[j][2]}

Init ==
    /\ \E ks \in InitShapes :
          /\ lots = BuildStore(ks).rows
          /\ orders = BuildStore(ks).ords
    /\ txn = [p \in Procs |-> {}]
    /\ pc = [p \in Procs |-> "idle"]
    /\ price = [p \in Procs |-> 0]
    /\ outcome = "none"
    /\ failed = {}
    /\ cycles = 0
    /\ tradingEnabled \in BOOLEAN

(* ------------------------------------------------------------------ *)
(* the brokerage                                                       *)
(* ------------------------------------------------------------------ *)
\* the order ids sync_orders() asks the brokerage about
PendingOrders(ls) ==
    {ls[i].buy_order_id : i \in {j \in DOMAIN ls : ls[j].buy_status = "BUY_SUBMITTED"}}
    \cup {ls[i].sell_order_id : i \in {j \in DOMAIN ls : ls[j].sell_status = "SELL_SUBMITTED"}}

\* An open order fills at some average price.  The brokerage is not held to
\* the limit of a buy order, since the code takes whatever it reports; a sell
\* is reported at its limit (sell_filled_price is stored and never read).
\* Only the orders the program will ask about are followed: the status of an
\* order no row points to (any more) is never read.
BrokerFill(o, fp) ==
    /\ o \in PendingOrders(lots)
    /\ o \in DOMAIN orders
    /\ orders[o].status = "new"
    /\ fp \in (IF orders[o].side = "sell" THEN {orders[o].limit_price} ELSE FillPrices)
    /\ orders' = [orders EXCEPT ![o].status = "filled", ![o].filled_avg_price = fp]
    /\ UNCHANGED <<lots, txn, pc, price, outcome, failed, cycles, tradingEnabled>>

(* ------------------------------------------------------------------ *)
(* /run                                                                *)
(* ------------------------------------------------------------------ *)
\* RUN_TOKEN and token != RUN_TOKEN: 403, run_cycle() is not called
RunUnauthorized(p) ==
    /\ pc[p] = "idle"
    /\ cycles < MaxCycles
    /\ cycles' = cycles + 1
    /\ outcome' = "unauthorized"
    /\ UNCHANGED <<lots, txn, orders, pc, price, failed, tradingEnabled>>

\* trading.get_clock() or get_price() raises: the fault leaves run_cycle() and
\* run(); Flask answers 500.  Nothing has been opened or written yet.
RunFetchFails(p) ==
    /\ pc[p] = "idle"
    /\ cycles < MaxCycles
    /\ cycles' = cycles + 1
    /\ outcome' = "error"
    /\ UNCHANGED <<lots, txn, orders, pc, price, failed, tradingEnabled>>

\* run_cycle() without the return of line 186: the closed market is logged
\* and the cycle goes on to fetch the price
RunMarketClosedGoesOn(p) ==
    /\ pc[p] = "idle"
    /\ cycles < MaxCycles
    /\ cycles' = cycles + 1
    /\ outcome' = "closed"
    /\ \E pr \in Prices : price' = [price EXCEPT ![p] = pr]
    /\ pc' = [pc EXCEPT ![p] = "sync"]
    /\ UNCHANGED <<lots, txn, orders, failed, tradingEnabled>>

\* clock.is_open is false: run_cycle() returns at once
RunMarketClosed(p) ==
    /\ pc[p] = "idle"
    /\ cycles < MaxCycles
    /\ cycles' = cycles + 1
    /\ outcome' = "closed"
    /\ UNCHANGED <<lots, txn, orders, pc, price, failed, tradingEnabled>>

\* the market is open and get_price() returns pr
RunBegin(p, pr) ==
    /\ pc[p] = "idle"
    /\ cycles < MaxCycles
    /\ cycles' = cycles + 1
    /\ price' = [price EXCEPT ![p] = pr]
    /\ pc' = [pc EXCEPT ![p] = "sync"]
    /\ UNCHANGED <<lots, txn, orders, outcome, failed, tradingEnabled>>

(* ------------------------------------------------------------------ *)
(* sync_orders                                                         *)
(* ------------------------------------------------------------------ *)
\* trading.get_order_by_id(o) returns (it does not raise for the orders in
\* `failing` only) and the order it returns has status "filled"
ReportsFilled(o, failing) ==
    /\ o \in DOMAIN orders
    /\ o \notin failing
    /\ orders[o].status = "filled"

\* the first loop with an UPDATE that lost its WHERE id=?: a reported fill
\* marks every row bought at the price reported last
SyncBuysNoWhere(ls, failing, writable) ==
    LET hit == {i \in DOMAIN ls : /\ ls[i].buy_status = "BUY_SUBMITTED"
                                   /\ ReportsFilled(ls[i].buy_order_id, failing)
                                   /\ writable}
    IN IF hit = {} THEN ls
       ELSE LET last == CHOOSE i \in hit : \A j \in hit : j <= i
            IN [i \in DOMAIN ls |->
                   [ls[i] EXCEPT !.buy_status = "BOUGHT",
                                 !.buy_filled_price =
                                     orders[ls[last].buy_order_id].filled_avg_price]]

\* the rows after the first loop: every BUY_SUBMITTED row whose order is
\* reported filled becomes BOUGHT at filled_avg_price
SyncBuys(ls, failing, writable) ==
    [i \in DOMAIN ls |->
        IF /\ ls[i].buy_status = "BUY_SUBMITTED"
           /\ ReportsFilled(ls[i].buy_order_id, failing)
           /\ writable
        THEN [ls[i] EXCEPT !.buy_status = "BOUGHT",
                           !.buy_filled_price = orders[ls[i].buy_order_id].filled_avg_price]
        ELSE ls[i]]

\* the second loop pasted from the first with the columns left as they were:
\* it walks the BOUGHT rows and asks about their buy orders
SyncSellsCopyPaste(ls, failing, writable) ==
    [i \in DOMAIN ls |->
        IF /\ ls[i].buy_status = "BOUGHT"
           /\ ReportsFilled(ls[i].buy_order_id, failing)
           /\ writable
        THEN [ls[i] EXCEPT !.sell_status = "SOLD",
                           !.sell_filled_price = orders[ls[i].buy_order_id].filled_avg_price]
        ELSE ls[i]]

\* the second loop with the try around the loop instead of inside it: the
\* first query that raises ends the loop
SyncSellsAbort(ls, failing, writable) ==
    [i \in DOMAIN ls |->
        IF /\ ls[i].sell_status = "SELL_SUBMITTED"
           /\ ReportsFilled(ls[i].sell_order_id, failing)
           /\ writable
           /\ ~\E j \in DOMAIN ls : /\ j < i
                                     /\ ls[j].sell_status = "SELL_SUBMITTED"
                                     /\ ls[j].sell_order_id \in failing
        THEN [ls[i] EXCEPT !.sell_status = "SOLD",
                           !.sell_filled_price = orders[ls[i].sell_order_id].filled_avg_price]
        ELSE ls[i]]

\* the rows after the second loop, over the SELL_SUBMITTED rows
SyncSells(ls, failing, writable) ==
    [i \in DOMAIN ls |->
        IF /\ ls[i].sell_status = "SELL_SUBMITTED"
           /\ ReportsFilled(ls[i].sell_order_id, failing)
           /\ writable
        THEN [ls[i] EXCEPT !.sell_status = "SOLD",
                           !.sell_filled_price = orders[ls[i].sell_order_id].filled_avg_price]
        ELSE ls[i]]

\* sync_orders(), with the status query raising for the orders in `failing`.
\* While another connection holds the write lock every UPDATE raises
\* "database is locked", which the bare except swallows like a failed query.
Sync(p, failing) ==
    /\ pc[p] = "sync"
    /\ failing \subseteq PendingOrders(lots)
    /\ lots' = SyncSells(SyncBuys(lots, failing, ~LockedByOther(p)),
                         failing, ~LockedByOther(p))
    /\ failed' = failing
    /\ pc' = [pc EXCEPT ![p] = "sell"]
    /\ UNCHANGED <<txn, orders, price, outcome, cycles, tradingEnabled>>

(* ------------------------------------------------------------------ *)
(* run_cycle: sell pass                                                *)
(* ------------------------------------------------------------------ *)
\* `if price >= target` written with >
SellDueAtStrict(ls, pr, permille) ==
    {i \in SellCandidates(ls) : pr > SellTargetAt(ls[i].buy_filled_price, permille)}

\* the fetched rows whose target the price has reached, for a grid step
SellDueAt(ls, pr, permille) ==
    {i \in SellCandidates(ls) : pr >= SellTargetAt(ls[i].buy_filled_price, permille)}

\* the fetched rows whose target the price has reached
SellDue(ls, pr) == SellDueAt(ls, pr, GRID_PERMILLE)

\* the sell loop left at the first submission that raises
SellAcceptedAbort(ls, pr, enabled, failing) ==
    IF enabled
    THEN {i \in SellDue(ls, pr) : \A f \in failing : i < f}
    ELSE {}

\* the sell loop without the TRADING_ENABLED check of lines 203-205
SellAcceptedAlways(ls, pr, enabled, failing) == SellDue(ls, pr) \ failing

\* the rows whose sell order the brokerage accepts
SellAccepted(ls, pr, enabled, failing) ==
    IF enabled THEN SellDue(ls, pr) \ failing ELSE {}

\* orders are submitted in the order of the fetched rows (by id)
SellOrderId(acc, i) == Len(orders) + Rank(acc, i) + 1

SellUpdate(acc, i, t) ==
    [id |-> i, sell_order_id |-> SellOrderId(acc, i),
     sell_limit_price |-> SellTarget(lots[i].buy_filled_price),
     sell_created_at |-> t]

SellPass(p, failing) ==
    /\ pc[p] = "sell"
    /\ failing \subseteq SellDue(lots, price[p])
    /\ ~tradingEnabled => failing = {}
    /\ LET acc == SellAccepted(lots, price[p], tradingEnabled, failing)
           n == Len(orders)
       IN /\ orders' = [k \in 1..(n + Cardinality(acc)) |->
                          IF k <= n THEN orders[k]
                          ELSE LET i == CHOOSE j \in acc : SellOrderId(acc, j) = k
                               IN NewOrder("sell", SellTarget(lots[i].buy_filled_price),
                                           lots[i].qty)]
          /\ txn' = [txn EXCEPT ![p] =
                        IF LockedByOther(p) THEN {}
                        ELSE {SellUpdate(acc, i, cycles) : i \in acc}]
    /\ failed' = failing
    /\ pc' = [pc EXCEPT ![p] = "buy"]
    /\ UNCHANGED <<lots, price, outcome, cycles, tradingEnabled>>

(* ------------------------------------------------------------------ *)
(* run_cycle: buy pass                                                 *)
(* ------------------------------------------------------------------ *)
\* conn.commit(): the pending sell UPDATEs reach the table
Committed(ls, pending) ==
    [i \in DOMAIN ls |->
        IF \E u \in pending : u.id = i
        THEN LET u == CHOOSE v \in pending : v.id = i
             IN [ls[i] EXCEPT !.sell_status = "SELL_SUBMITTED",
                              !.sell_order_id = u.sell_order_id,
                              !.sell_limit_price = u.sell_limit_price,
                              !.sell_created_at = u.sell_created_at]
        ELSE ls[i]]

BuyPrice(ls, pr) == BuyLevel(Anchor(ls, pr))
BuyQty(bp) == (ORDER_USD * 100) \div bp

\* the buy logic without the band check of lines 231-234
BuyBranchNoBand(ls, pr, enabled) ==
    CASE deployed_capital(ls) >= MAX_CAPITAL * 100 -> "capital"
      [] OTHER ->
    CASE pr > BuyPrice(ls, pr) -> "wait"
      [] OTHER ->
    CASE open_buy_exists(ls, BuyPrice(ls, pr)) -> "duplicate"
      [] OTHER ->
    CASE BuyQty(BuyPrice(ls, pr)) <= 0 -> "qty"
      [] OTHER ->
    CASE ~enabled -> "disabled"
      [] OTHER -> "submit"

\* which exit the buy logic takes for the committed rows ls and price pr
BuyBranch(ls, pr, enabled) ==
    CASE ~(LOWER_BAND * 100 <= pr /\ pr <= UPPER_BAND * 100) -> "band"
      [] OTHER ->
    CASE deployed_capital(ls) >= MAX_CAPITAL * 100 -> "capital"
      [] OTHER ->
    CASE pr > BuyPrice(ls, pr) -> "wait"
      [] OTHER ->
    CASE open_buy_exists(ls, BuyPrice(ls, pr)) -> "duplicate"
      [] OTHER ->
    CASE BuyQty(BuyPrice(ls, pr)) <= 0 -> "qty"
      [] OTHER ->
    CASE ~enabled -> "disabled"
      [] OTHER -> "submit"

\* does the path taken reach conn.commit() (line 290)?
ReachesCommit(branch) == branch = "submit"

\* the rest of run_cycle() after the sell loop.  `accepted`: the brokerage
\* accepts the buy order (submit_order returns) rather than raising.
BuyPass(p, accepted) ==
    /\ pc[p] = "buy"
    /\ LET branch == BuyBranch(lots, price[p], tradingEnabled)
           bp == BuyPrice(lots, price[p])
           q == BuyQty(bp)
       IN /\ (branch # "submit") => accepted
          /\ IF ~ReachesCommit(branch)
             THEN \* conn.close() without commit: the pending UPDATEs are lost
                  UNCHANGED <<lots, orders>>
             ELSE IF ~accepted
             THEN /\ lots' = Committed(lots, txn[p])
                  /\ UNCHANGED orders
             ELSE /\ orders' = Append(orders, NewOrder("buy", bp, q))
                  /\ lots' = IF LockedByOther(p)
                             THEN lots
                             ELSE Append(Committed(lots, txn[p]),
                                         NewLot(Len(orders) + 1, bp, q, cycles))
    /\ txn' = [txn EXCEPT ![p] = {}]
    /\ pc' = [pc EXCEPT ![p] = "idle"]
    /\ price' = [price EXCEPT ![p] = 0]
    /\ outcome' = IF BuyBranch(lots, price[p], tradingEnabled) # "submit"
                  THEN BuyBranch(lots, price[p], tradingEnabled)
                  ELSE IF accepted THEN "placed" ELSE "rejected"
    /\ failed' = {}
    /\ UNCHANGED <<cycles, tradingEnabled>>

\* the HTTP status run() answers with
Response(o) ==
    CASE o = "unauthorized" -> 403
      [] o = "error" -> 500
      [] OTHER -> 200

(* ------------------------------------------------------------------ *)
(* specifications                                                      *)
(* ------------------------------------------------------------------ *)
Environment ==
    \E o \in DOMAIN orders :
        \E fp \in FillPrices \cup {SellTarget(f) : f \in FillPrices \cup {40000}} :
            BrokerFill(o, fp)

Request(p) ==
    \/ RunUnauthorized(p)
    \/ RunFetchFails(p)
    \/ RunMarketClosed(p)
    \/ \E pr \in Prices : RunBegin(p, pr)

Cycle(p) ==
    \/ \E failing \in SUBSET PendingOrders(lots) : Sync(p, failing)
    \/ \E failing \in SUBSET SellDue(lots, price[p]) : SellPass(p, failing)
    \/ \E accepted \in BOOLEAN : BuyPass(p, accepted)

\* Flask serves requests on threads: invocations of /run may overlap
Next ==
    \/ Environment
    \/ \E p \in Procs : Request(p)
    \/ \E p \in Procs : Cycle(p)

Spec == Init /\ [][Next]_vars

\* the scheduler never triggers /run while an invocation is in progress
NoneRunning == \A q \in Procs : pc[q] = "idle"

NextSeq ==
    \/ Environment
    \/ \E p \in {Min(Procs)} : NoneRunning /\ Request(p)
    \/ \E p \in Procs : Cycle(p)

SpecSeq == Init /\ [][NextSeq]_vars

(* ------------------------------------------------------------------ *)
(* vocabulary of the properties                                        *)
(* ------------------------------------------------------------------ *)
\* position of a row on NONE -> BUY_SUBMITTED -> BOUGHT -> SELL_SUBMITTED -> SOLD;
\* 0 for a combination of statuses that is not on the line
Stage(l) ==
    CASE l.buy_status = "BUY_SUBMITTED" /\ l.sell_status = "NULL" -> 1
      [] l.buy_status = "BOUGHT" /\ l.sell_status = "NULL" -> 2
      [] l.buy_status = "BOUGHT" /\ l.sell_status = "SELL_SUBMITTED" -> 3
      [] l.buy_status = "BOUGHT" /\ l.sell_status = "SOLD" -> 4
      [] OTHER -> 0

\* deployed capital as section 4.1 of the specification defines it
DeployedSum(ls) ==
    SumOver([i \in DOMAIN ls |-> ls[i].buy_filled_price * ls[i].qty],
            {i \in DOMAIN ls : ls[i].buy_status = "BOUGHT" /\ ls[i].sell_status # "SOLD"})
    + SumOver([i \in DOMAIN ls |-> ls[i].buy_limit_price * ls[i].qty],
              {i \in DOMAIN ls : ls[i].buy_status = "BUY_SUBMITTED"})

\* p takes the step that is the buy pass (and the end of the cycle)
BuyStep(p) == pc[p] = "buy" /\ pc'[p] = "idle"
SellStep(p) == pc[p] = "sell" /\ pc'[p] = "buy"
SyncStep(p) == pc[p] = "sync" /\ pc'[p] = "sell"

\* the step submits a buy order / inserts a row
BuySubmitted ==
    \E o \in DOMAIN orders' : o \notin DOMAIN orders /\ orders'[o].side = "buy"
LotInserted == Len(lots') # Len(lots)

(* ------------------------------------------------------------------ *)
(* C1                                                                  *)
(* ------------------------------------------------------------------ *)
\* C1: over any sequence of cycles every row only moves forward along
\* BUY_SUBMITTED -> BOUGHT -> SELL_SUBMITTED -> SOLD: a row is created as
\* BUY_SUBMITTED, no row is removed, and a step leaves a row where it is or
\* moves it to the next stage.
C1_LinearLifecycle ==
    [][/\ Len(lots') >= Len(lots)
       /\ \A i \in DOMAIN lots' :
            IF i \in DOMAIN lots
            THEN /\ Stage(lots[i]) >= 1
                 /\ Stage(lots'[i]) \in {Stage(lots[i]), Stage(lots[i]) + 1}
            ELSE Stage(lots'[i]) = 1]_vars

\* a row the program created has been bought, and a row has been sold
C1_Witness ==
    /\ \E i \in DOMAIN lots : lots[i].buy_created_at > 0 /\ lots[i].buy_status = "BOUGHT"
    /\ \E i \in DOMAIN lots : lots[i].sell_status = "SOLD" /\ lots[i].sell_created_at > 0

(* ------------------------------------------------------------------ *)
(* C2                                                                  *)
(* ------------------------------------------------------------------ *)
\* C2: when deployed capital as the specification defines it is at or above
\* max_capital at the buy pass, the buy pass submits no buy order and
\* inserts no row.
C2_CapitalCeiling ==
    [][\A p \in Procs :
        (BuyStep(p) /\ DeployedSum(lots) >= MAX_CAPITAL * 100)
            => (~BuySubmitted /\ ~LotInserted)]_vars

(* ------------------------------------------------------------------ *)
(* C3                                                                  *)
(* ------------------------------------------------------------------ *)
NoDuplicateOpenBuys ==
    \A i, j \in DOMAIN lots :
        (/\ i # j
         /\ lots[i].buy_status = "BUY_SUBMITTED"
         /\ lots[j].buy_status = "BUY_SUBMITTED")
            => lots[i].buy_limit_price # lots[j].buy_limit_price

\* C3: with non-overlapping cycles no two BUY_SUBMITTED rows ever share a
\* buy_limit_price, and a buy pass whose level already has an open buy
\* inserts no row and submits no order.
C3_DuplicateGuard ==
    /\ []NoDuplicateOpenBuys
    /\ [][\A p \in Procs :
            (/\ BuyStep(p)
             /\ \E i \in DOMAIN lots :
                    /\ lots[i].buy_status = "BUY_SUBMITTED"
                    /\ lots[i].buy_limit_price = BuyLevel(Anchor(lots, price[p])))
                => (~BuySubmitted /\ ~LotInserted)]_vars

\* a cycle ended on the duplicate-level exit and the open buy is still there
C3_Witness ==
    /\ outcome = "duplicate"
    /\ \E i \in DOMAIN lots : lots[i].buy_status = "BUY_SUBMITTED"
    /\ \E i \in DOMAIN lots : lots[i].buy_created_at > 0

(* ------------------------------------------------------------------ *)
(* C4                                                                  *)
(* ------------------------------------------------------------------ *)
\* C4: every sell order the brokerage accepted in the sell pass is on its
\* row, as SELL_SUBMITTED with the order's id, when the cycle has ended.
C4_SellRecorded ==
    [][\A p \in Procs :
        BuyStep(p) =>
            \A u \in txn[p] :
                /\ lots'[u.id].sell_status = "SELL_SUBMITTED"
                /\ lots'[u.id].sell_order_id = u.sell_order_id]_vars

(* ------------------------------------------------------------------ *)
(* C5                                                                  *)
(* ------------------------------------------------------------------ *)
\* C5: the sell pass submits a sell order only for a BOUGHT row whose
\* sell_status is neither SELL_SUBMITTED nor SOLD, and the sell fields of a
\* SELL_SUBMITTED row are never overwritten.
C5_NoSecondSell ==
    [][/\ \A p \in Procs :
            SellStep(p) =>
                \A u \in txn'[p] :
                    /\ lots[u.id].buy_status = "BOUGHT"
                    /\ lots[u.id].sell_status \notin {"SELL_SUBMITTED", "SOLD"}
       /\ \A i \in DOMAIN lots :
            lots[i].sell_status = "SELL_SUBMITTED" =>
                /\ lots'[i].sell_order_id = lots[i].sell_order_id
                /\ lots'[i].sell_limit_price = lots[i].sell_limit_price
                /\ lots'[i].sell_created_at = lots[i].sell_created_at]_vars

(* ------------------------------------------------------------------ *)
(* C6                                                                  *)
(* ------------------------------------------------------------------ *)
\* C6: at most one invocation of the cycle is in progress at any time (a
\* second /run is answered busy and runs no step).
C6_MutualExclusion ==
    Cardinality({p \in Procs : pc[p] # "idle"}) <= 1

(* ------------------------------------------------------------------ *)
(* C7                                                                  *)
(* ------------------------------------------------------------------ *)
\* C7: deployed_capital() is the sum of buy_filled_price*qty over the rows
\* BOUGHT and not SOLD plus buy_limit_price*qty over the BUY_SUBMITTED rows,
\* and is never negative.
C7_CapitalIsTheSum ==
    /\ deployed_capital(lots) = DeployedSum(lots)
    /\ deployed_capital(lots) >= 0

(* ------------------------------------------------------------------ *)
(* C8                                                                  *)
(* ------------------------------------------------------------------ *)
\* C8: whatever the market clock says, an invocation of the cycle whose
\* brokerage calls succeed leaves no pending row whose order the brokerage
\* reports filled: an invocation that returns before the passes has marked
\* each such row with the reported price, and so has reconciliation in an
\* invocation that goes on.
C8_ReconcileEveryInvocation ==
    [][\A p \in Procs :
        /\ (/\ pc[p] = "idle" /\ pc'[p] = "idle"
            /\ cycles' # cycles
            /\ outcome' \notin {"unauthorized", "error"})
                => \A i \in DOMAIN lots :
                     /\ (/\ lots[i].buy_status = "BUY_SUBMITTED"
                         /\ orders[lots[i].buy_order_id].status = "filled")
                             => /\ lots'[i].buy_status = "BOUGHT"
                                /\ lots'[i].buy_filled_price =
                                       orders[lots[i].buy_order_id].filled_avg_price
                     /\ (/\ lots[i].sell_status = "SELL_SUBMITTED"
                         /\ orders[lots[i].sell_order_id].status = "filled")
                             => /\ lots'[i].sell_status = "SOLD"
                                /\ lots'[i].sell_filled_price =
                                       orders[lots[i].sell_order_id].filled_avg_price
        /\ SyncStep(p) =>
            \A i \in DOMAIN lots :
                /\ (/\ lots[i].buy_status = "BUY_SUBMITTED"
                    /\ lots[i].buy_order_id \notin failed'
                    /\ orders[lots[i].buy_order_id].status = "filled")
                        => /\ lots'[i].buy_status = "BOUGHT"
                           /\ lots'[i].buy_filled_price =
                                  orders[lots[i].buy_order_id].filled_avg_price
                /\ (/\ lots[i].sell_status = "SELL_SUBMITTED"
                    /\ lots[i].sell_order_id \notin failed'
                    /\ orders[lots[i].sell_order_id].status = "filled")
                        => /\ lots'[i].sell_status = "SOLD"
                           /\ lots'[i].sell_filled_price =
                                  orders[lots[i].sell_order_id].filled_avg_price]_vars

(* ------------------------------------------------------------------ *)
(* C9                                                                  *)
(* ------------------------------------------------------------------ *)
\* C9: no step changes the buy_status or the buy_filled_price of a row that
\* is BOUGHT.
C9_BoughtIsFinal ==
    [][\A i \in DOMAIN lots :
        lots[i].buy_status = "BOUGHT" =>
            /\ lots'[i].buy_status = "BOUGHT"
            /\ lots'[i].buy_filled_price = lots[i].buy_filled_price]_vars

\* reconciliation has just marked a row bought at a price other than the
\* fill price of a row that was bought before
C9_Witness ==
    /\ \E p \in Procs : pc[p] = "sell"
    /\ \E i, j \in DOMAIN lots :
        /\ lots[i].buy_status = "BOUGHT"
        /\ lots[j].buy_status = "BOUGHT"
        /\ lots[i].buy_created_at = 0
        /\ lots[j].buy_filled_price \in FillPrices
        /\ lots[j].buy_filled_price # lots[i].buy_filled_price

(* ------------------------------------------------------------------ *)
(* C10                                                                 *)
(* ------------------------------------------------------------------ *)
\* C10: in a reconciliation run a row whose status query raised is left as
\* it was, and every other pending row whose order is reported filled is
\* updated with the reported price.
C10_FailureIsolation ==
    [][\A p \in Procs :
        SyncStep(p) =>
            \A i \in DOMAIN lots :
                /\ (\/ (lots[i].buy_status = "BUY_SUBMITTED"
                          /\ lots[i].buy_order_id \in failed')
                    \/ (lots[i].sell_status = "SELL_SUBMITTED"
                          /\ lots[i].sell_order_id \in failed'))
                        => lots'[i] = lots[i]
                /\ (/\ lots[i].buy_status = "BUY_SUBMITTED"
                    /\ lots[i].buy_order_id \notin failed'
                    /\ orders[lots[i].buy_order_id].status = "filled")
                        => /\ lots'[i].buy_status = "BOUGHT"
                           /\ lots'[i].buy_filled_price =
                                  orders[lots[i].buy_order_id].filled_avg_price
                /\ (/\ lots[i].sell_status = "SELL_SUBMITTED"
                    /\ lots[i].sell_order_id \notin failed'
                    /\ orders[lots[i].sell_order_id].status = "filled")
                        => /\ lots'[i].sell_status = "SOLD"
                           /\ lots'[i].sell_filled_price =
                                  orders[lots[i].sell_order_id].filled_avg_price]_vars

\* the first reconciliation has just run: the query for one row's filled
\* order raised and the row is still pending, while another row was bought
C10_Witness ==
    /\ \E p \in Procs : pc[p] = "sell"
    /\ \E i, j \in DOMAIN lots :
        /\ i # j
        /\ \/ (lots[i].buy_status = "BUY_SUBMITTED" /\ lots[i].buy_order_id \in failed
                  /\ orders[lots[i].buy_order_id].status = "filled")
           \/ (lots[i].sell_status = "SELL_SUBMITTED" /\ lots[i].sell_order_id \in failed
                  /\ orders[lots[i].sell_order_id].status = "filled")
        /\ lots[j].buy_status = "BOUGHT"
        /\ lots[j].buy_filled_price \in FillPrices
    /\ cycles = 1

\* C11: a failure while fetching the market clock or the latest trade never
\* ends an invocation with an unhandled fault; the invocation still answers as
\* a finished cycle.  The exception raised by get_clock() or get_price() leaves
\* run_cycle() and run(), and the invocation is answered with status 500.
C11_FetchFailureHandled ==
    Response(outcome) # 500

\* the sell target of a row and the rows a sell pass at price pr must sell,
\* written from the row's fields
TargetOf(l) == (l.buy_filled_price * (1000 + GRID_PERMILLE) + 500) \div 1000

Eligible(ls, pr) ==
    {i \in DOMAIN ls : /\ ls[i].buy_status = "BOUGHT"
                        /\ ls[i].sell_status # "SOLD"
                        /\ pr >= TargetOf(ls[i])}

\* C12: when the brokerage fails the sell submission of some eligible rows F
\* (the rows whose submit_order() raised in the sell pass),
\* those rows get no sell order and no sell UPDATE and the committed rows stay
\* as they were; every other eligible row still gets its sell order and its
\* UPDATE in the same pass; the buy pass runs next, and what it decides is
\* what the committed rows and the price decide, whatever failed or succeeded
\* in the sell pass.
C12_SellFailureIsolated ==
    [][\A p \in Procs :
         /\ (SellStep(p) /\ tradingEnabled) =>
              LET F == failed'
              IN  /\ F \subseteq Eligible(lots, price[p])
                  /\ lots' = lots
                  /\ pc'[p] = "buy"
                  /\ Len(orders') = Len(orders)
                                      + Cardinality(Eligible(lots, price[p]) \ F)
                  /\ \A i \in F : ~ \E u \in txn'[p] : u.id = i
                  /\ \A i \in Eligible(lots, price[p]) \ F :
                        \E u \in txn'[p] :
                            /\ u.id = i
                            /\ u.sell_order_id \in (Len(orders) + 1)..Len(orders')
                            /\ orders'[u.sell_order_id].side = "sell"
                            /\ orders'[u.sell_order_id].qty = lots[i].qty
                  /\ BuyBranch(lots', price'[p], tradingEnabled')
                        = BuyBranch(lots, price[p], tradingEnabled)
         /\ BuyStep(p) =>
              LET d == BuyBranch(lots, price[p], tradingEnabled)
              IN IF d = "submit" THEN outcome' \in {"placed", "rejected"}
                                 ELSE outcome' = d]_vars

\* a sell pass has run in which the submission for one eligible row failed
\* and a later eligible row was still sold
C12_Witness ==
    \E p \in Procs :
        /\ pc[p] = "buy"
        /\ tradingEnabled
        /\ \E i, j \in Eligible(lots, price[p]) :
              /\ i < j
              /\ i \in failed
              /\ ~ \E u \in txn[p] : u.id = i
              /\ \E u \in txn[p] : u.id = j

\* the buy level of a cycle, written from the rows: the anchor is the fill
\* price of the BOUGHT row with the highest id, else the current price
ExpectedBuyPrice(ls, pr) ==
    LET B == {i \in DOMAIN ls : ls[i].buy_status = "BOUGHT"}
        a == IF B = {} THEN pr
             ELSE ls[CHOOSE i \in B : \A j \in B : j <= i].buy_filled_price
    IN (a * (1000 - GRID_PERMILLE) + 500) \div 1000

\* C13: a row is inserted exactly when a buy submission succeeded.  A buy
\* pass whose submission is rejected, or that submits nothing, leaves the
\* number of rows as it was; a buy pass whose submission is accepted adds
\* exactly one row, the last, with buy_status BUY_SUBMITTED, the id of the
\* order just accepted, the buy price as limit and the computed qty > 0, the
\* same as the order's.  No other step adds a row and every row names a buy
\* order.
C13_RowIffBuyAccepted ==
    /\ [](\A i \in DOMAIN lots : lots[i].buy_order_id \in DOMAIN orders)
    /\ [][/\ LotInserted => (\E q \in Procs : BuyStep(q))
          /\ \A p \in Procs : BuyStep(p) =>
               /\ LotInserted <=> BuySubmitted
               /\ BuySubmitted <=> outcome' = "placed"
               /\ outcome' # "placed" => Len(lots') = Len(lots)
               /\ outcome' = "placed" =>
                    /\ Len(lots') = Len(lots) + 1
                    /\ Len(orders') = Len(orders) + 1
                    /\ LET l == lots'[Len(lots')]
                           o == orders'[Len(orders')]
                       IN /\ l.buy_status = "BUY_SUBMITTED"
                          /\ l.buy_order_id = Len(orders')
                          /\ o.side = "buy"
                          /\ l.buy_limit_price = ExpectedBuyPrice(lots, price[p])
                          /\ o.limit_price = l.buy_limit_price
                          /\ l.qty = (ORDER_USD * 100) \div l.buy_limit_price
                          /\ l.qty > 0
                          /\ o.qty = l.qty
                          /\ l.sell_status = "NULL"]_vars

\* a buy submission has just been accepted and its row is the last of the table
C13_Witness ==
    /\ outcome = "placed"
    /\ \A p \in Procs : pc[p] = "idle"
    /\ Len(lots) > 0
    /\ lots[Len(lots)].buy_status = "BUY_SUBMITTED"
    /\ lots[Len(lots)].buy_created_at = cycles
    /\ cycles > 0

\* a buy submission has just been rejected
C13_WitnessRejected ==
    /\ outcome = "rejected"
    /\ \A i \in DOMAIN lots : lots[i].buy_created_at < cycles

\* C14: with the bands 380 and 430, the grid step 0.006 and 500 USD per
\* order, a cycle at the price 397.00 over a table with no BOUGHT row (and no
\* open buy), trading enabled and the brokerage accepting, submits a limit buy
\* of 1 unit at 397.60 and inserts a row with buy_status BUY_SUBMITTED.  The
\* code anchors at the current price, computes the level 394.62 and waits.
C14_FirstBuyExample ==
    [][\A p \in Procs :
         (/\ BuyStep(p)
          /\ price[p] = 39700
          /\ tradingEnabled
          /\ lots = << >>
          /\ outcome' # "rejected") =>
             /\ Len(orders') = Len(orders) + 1
             /\ orders'[Len(orders')] = NewOrder("buy", 39760, 1)
             /\ Len(lots') = 1
             /\ lots'[1].buy_status = "BUY_SUBMITTED"
             /\ lots'[1].buy_limit_price = 39760
             /\ lots'[1].qty = 1]_vars

\* a row bought at 100.00 and not yet sold
ExampleLot ==
    [NewLot(1, 10000, 1, 0) EXCEPT !.buy_status = "BOUGHT",
                                   !.buy_filled_price = 10000]

\* C15: with trading enabled a BOUGHT row that is not SOLD gets a sell order
\* in a sell pass exactly when the price is at or above
\* round(buy_filled_price * (1 + grid), 2) (and the brokerage accepts the
\* submission); the order's limit and the sell_limit_price written for the
\* row are that target, as is the sell_limit_price of every row in the table
\* that has one.  For a fill at 100.00 and a grid step of 0.005 the target is
\* 100.50: at 100.49 the row is not sold, at 100.50 it is.
C15_SellThreshold ==
    /\ SellTargetAt(10000, 5) = 10050
    /\ SellDueAt(<<ExampleLot>>, 10049, 5) = {}
    /\ SellDueAt(<<ExampleLot>>, 10050, 5) = {1}
    /\ [](\A i \in DOMAIN lots :
            lots[i].sell_status \in {"SELL_SUBMITTED", "SOLD"} =>
                lots[i].sell_limit_price = TargetOf(lots[i]))
    /\ [][\A p \in Procs : (SellStep(p) /\ tradingEnabled) =>
            LET F == failed'
            IN  /\ \A i \in DOMAIN lots :
                      (lots[i].buy_status = "BOUGHT" /\ lots[i].sell_status # "SOLD") =>
                          ((\E u \in txn'[p] : u.id = i)
                             <=> (price[p] >= TargetOf(lots[i]) /\ i \notin F))
                /\ \A u \in txn'[p] :
                      /\ u.sell_limit_price = TargetOf(lots[u.id])
                      /\ u.sell_order_id \in (Len(orders) + 1)..Len(orders')
                      /\ orders'[u.sell_order_id] =
                            NewOrder("sell", TargetOf(lots[u.id]), lots[u.id].qty)
                /\ Len(orders') = Len(orders) + Cardinality(txn'[p])]_vars

\* a sell pass has sold a row whose target the price had reached and has
\* left alone a row whose target it had not
C15_Witness ==
    \E p \in Procs :
        /\ pc[p] = "buy"
        /\ tradingEnabled
        /\ \E i, j \in DOMAIN lots :
              /\ lots[i].buy_status = "BOUGHT" /\ lots[i].sell_status # "SOLD"
              /\ lots[j].buy_status = "BOUGHT" /\ lots[j].sell_status # "SOLD"
              /\ price[p] >= TargetOf(lots[i])
              /\ price[p] < TargetOf(lots[j])
              /\ \E u \in txn[p] : u.id = i /\ u.sell_limit_price = TargetOf(lots[i])
              /\ ~ \E u \in txn[p] : u.id = j

\* prices just outside and just inside the band [380.00, 430.00]
OutOfBand(pr) == pr < LOWER_BAND * 100 \/ pr > UPPER_BAND * 100
BandEdgePrices == {LOWER_BAND * 100 - 1, LOWER_BAND * 100,
                   UPPER_BAND * 100, UPPER_BAND * 100 + 1}

\* C16: in a cycle whose price is below 380.00 or above 430.00 the buy pass
\* submits no buy order and inserts no row, whatever the table holds: for
\* every reachable table the buy logic takes the band exit at a price outside
\* the band and only there.  The sell pass does not look at the band: at a
\* price outside it every eligible row is still sold.
C16_BandGuard ==
    /\ [](\A pr \in BandEdgePrices :
            (BuyBranch(lots, pr, tradingEnabled) = "band") <=> OutOfBand(pr))
    /\ [][\A p \in Procs :
            /\ (BuyStep(p) /\ OutOfBand(price[p])) =>
                  /\ ~BuySubmitted
                  /\ ~LotInserted
                  /\ orders' = orders
                  /\ outcome' = "band"
            /\ (tradingEnabled /\ OutOfBand(price[p]) /\ SellStep(p) /\ failed' = {}) =>
                  \A i \in Eligible(lots, price[p]) :
                      \E u \in txn'[p] :
                          /\ u.id = i
                          /\ orders'[u.sell_order_id].side = "sell"]_vars

\* the first cycle ran at a price outside the band: its sell pass submitted a
\* sell order (no row names it, the band exit closed the connection without
\* commit) and its buy pass left by the band exit
C16_Witness ==
    /\ outcome = "band"
    /\ cycles = 1
    /\ \A p \in Procs : pc[p] = "idle"
    /\ \E o \in DOMAIN orders :
          /\ orders[o].side = "sell"
          /\ \A i \in DOMAIN lots : lots[i].sell_order_id # o

\* C17: while trading is disabled no step submits an order, no row is
\* inserted, no sell UPDATE is written and no row's sell_order_id,
\* sell_limit_price or sell_created_at changes; a row changes only in
\* reconciliation, which still marks filled orders.
C17_TradingDisabled ==
    [][~tradingEnabled =>
         /\ Len(orders') = Len(orders)
         /\ \A o \in DOMAIN orders :
               /\ orders'[o].side = orders[o].side
               /\ orders'[o].limit_price = orders[o].limit_price
               /\ orders'[o].qty = orders[o].qty
         /\ Len(lots') = Len(lots)
         /\ \A p \in Procs : txn'[p] = {}
         /\ \A i \in DOMAIN lots :
               /\ lots'[i].sell_order_id = lots[i].sell_order_id
               /\ lots'[i].sell_limit_price = lots[i].sell_limit_price
               /\ lots'[i].sell_created_at = lots[i].sell_created_at
               /\ lots'[i] # lots[i] => \E p \in Procs : SyncStep(p)]_vars

\* with trading disabled a cycle has passed over a row due for sale and has
\* reached the buy submission, which the switch skipped
C17_Witness ==
    /\ ~tradingEnabled
    /\ outcome = "disabled"
    /\ \A p \in Procs : pc[p] = "idle"
    /\ \E pr \in Prices : ~OutOfBand(pr) /\ Eligible(lots, pr) # {}

\* C18: no step removes a row: the table only grows, and each row keeps its
\* place (its id), its buy order and its creation time.  A row whose
\* sell_status is SOLD is never changed again: reconciliation, the sell pass
\* and the buy pass leave every one of its fields as it is, and no sell pass
\* writes a sell UPDATE for it.
C18_AppendOnly ==
    [][/\ Len(lots') >= Len(lots)
       /\ \A i \in DOMAIN lots :
             /\ lots'[i].buy_order_id = lots[i].buy_order_id
             /\ lots'[i].buy_created_at = lots[i].buy_created_at
             /\ lots[i].sell_status = "SOLD" => lots'[i] = lots[i]
       /\ \A p \in Procs : \A u \in txn'[p] :
             lots[u.id].sell_status # "SOLD"]_vars

\* a whole cycle at a price above its sell target has passed over a SOLD row
C18_Witness ==
    /\ outcome = "band"
    /\ \A p \in Procs : pc[p] = "idle"
    /\ \E i \in DOMAIN lots :
          /\ lots[i].sell_status = "SOLD"
          /\ \E pr \in Prices : pr >= TargetOf(lots[i]) /\ OutOfBand(pr)

\* C19: while no row has buy_status BOUGHT the anchor is the current price;
\* for every price in the band round(price * (1 - grid), 2) is below the
\* price, so a buy pass over a table with no BOUGHT row submits no buy order
\* and inserts no row: inside the band it waits.  A table that is empty
\* therefore stays empty.
C19_BootstrapNeverBuys ==
    /\ \A pr \in (LOWER_BAND * 100)..(UPPER_BAND * 100) :
          /\ Anchor(<< >>, pr) = pr
          /\ BuyLevel(pr) < pr
    /\ [][/\ \A p \in Procs :
              (BuyStep(p) /\ \A i \in DOMAIN lots : lots[i].buy_status # "BOUGHT") =>
                  /\ ~BuySubmitted
                  /\ ~LotInserted
                  /\ ~OutOfBand(price[p]) => outcome' \in {"wait", "capital"}
          /\ lots = << >> => lots' = << >>]_vars

\* a cycle inside the band has run over a table still empty after it, and
\* its buy pass waited for a lower price
C19_Witness ==
    /\ outcome = "wait"
    /\ cycles = MaxCycles
    /\ lots = << >>
    /\ \A p \in Procs : pc[p] = "idle"

\* C20: an invocation that finds the market closed is over in that step: it
\* fetches no price, starts no reconciliation, sell pass or buy pass, submits
\* no order and leaves every row, and every order, as it was.  A step that
\* takes in an invocation either reports (closed, unauthorized, error) and
\* changes nothing else, or fetches a price and starts a cycle without
\* reporting; the step reporting the closed market is of the first kind.
C20_ClosedIsNoOp ==
    [][cycles' # cycles =>
         \/ /\ outcome' \in {"closed", "unauthorized", "error"}
            /\ pc' = pc
            /\ price' = price
            /\ lots' = lots
            /\ orders' = orders
            /\ txn' = txn
         \/ /\ outcome' = outcome
            /\ \E p \in Procs :
                  /\ pc[p] = "idle"
                  /\ pc'[p] = "sync"
                  /\ price'[p] \in Prices]_vars

\* an invocation has found the market closed while the table held a pending
\* row whose order the brokerage reports filled
C20_Witness ==
    /\ outcome = "closed"
    /\ cycles > 0
    /\ \A p \in Procs : pc[p] = "idle" /\ price[p] = 0
    /\ \E i \in DOMAIN lots :
          \/ /\ lots[i].buy_status = "BUY_SUBMITTED"
             /\ orders[lots[i].buy_order_id].status = "filled"
          \/ /\ lots[i].sell_status = "SELL_SUBMITTED"
             /\ orders[lots[i].sell_order_id].status = "filled"

====
